---- MODULE Spec2Model ----
(***************************************************************************)
(* Model of main.py: the download/extraction orchestration of one course   *)
(* (collection): the ledger `downloaded` and its file downloaded.json, the *)
(* batch of item tasks process_course schedules (popup_download_task and   *)
(* download_task -> download_and_extract), the retry loop and fallback     *)
(* chain of download_and_extract, extract_rar, and successive runs of the  *)
(* program over the same files.                                            *)
(*                                                                         *)
(* Tasks are asyncio coroutines: code between two awaits runs atomically,  *)
(* so one action covers the code from one suspension point to the next     *)
(* one that matters (awaits on the task's own page are merged).            *)
(* A ledger list (rars, mp4s) is modelled by the set of its members: the   *)
(* code appends a name only when it is not in the list.                    *)
(*                                                                         *)
(* Spec and SpecConcurrent run the program; SpecExtract, SpecLoad and      *)
(* SpecParse call extract_rar, load_downloaded and parse_li alone, on      *)
(* inputs the program's own runs do not produce.                           *)
(***************************************************************************)
EXTENDS Integers, FiniteSets, Sequences, TLC

\* ----------------------------------------------------------------- bounds
MaxItems == 2
MaxRuns == 2
\* the smaller of the values taken for the MAX_CONCURRENT_DOWNLOADS setting
\* (a configuration input, default 4): fewer permits than items, so that
\* the semaphore blocks
MaxDownloads == 1
\* main.py:480
max_retries == 3
\* the number of calls of a function taken alone
MaxCalls == 3
\* the number of entries of a ledger file that load_downloaded reads
MaxEntries == 2
\* the largest index of a listing entry that parse_li is called with
MaxIndex == 3
\* get_course_ids alone: the courses of the listing and the largest
\* max_workers (MAX_CONCURRENT_COURSE_FETCH)
MaxCourses == 4
MaxWorkers == 2

Items == 1..MaxItems
Folder == "course"

\* What the listing page holds for an item (main.py:279-283, 337-339):
\*   popup        an offline anchor, and parse_li gives (href, filename)
\*   popupNoName  an offline anchor, and parse_li gives None
\*   direct       no offline anchor, and parse_li gives (href, filename)
\*   directNoName no offline anchor, and parse_li gives None
Kinds == {"popup", "popupNoName", "direct", "directNoName"}

\* parse_li's filename for item i, and its .mp4 twin; the names carry the
\* index, so two items never share one
ArchiveName(i) == i
MediaName(i) == i
\* main.py:308, the name used when parse_li gave nothing
FallbackName(i) == 0 - i

VARIABLES
    kind,        \* item -> what the listing page holds for it
    task,        \* item -> state of its task in the current batch
    downloaded,  \* the in-memory ledger: collection key -> entry
    file,        \* downloaded.json
    rarDisk,     \* archive files present in the download directory
    mp4Disk,     \* media files present in the extract directory
    max_downloads, \* the MAX_CONCURRENT_DOWNLOADS setting (main.py:271)
    sem,         \* free permits of download_sem
    lock,        \* holder of page_click_lock, 0 when free
    mainPc,      \* position of main / process_course
    run,         \* number of the current run of the program
    probe        \* the call of a function taken alone: its inputs and result

vars == <<kind, task, downloaded, file, rarDisk, mp4Disk, max_downloads, sem,
          lock, mainPc, run, probe>>

\* No function is taken alone: the program runs
NoProbe == [op |-> "none"]

\* ------------------------------------------------------------ the ledger
EmptyLedger == [k \in {} |-> 0]
NewEntry == [rars |-> {}, mp4s |-> {}]
NoFile == [state |-> "absent", data |-> EmptyLedger]

HasEntry(d) == Folder \in DOMAIN d
Rars(d) == IF HasEntry(d) THEN d[Folder].rars ELSE {}
Mp4s(d) == IF HasEntry(d) THEN d[Folder].mp4s ELSE {}

\* downloaded[folder_name]["rars"].append(filename)
AppendRar(d, name) == [d EXCEPT ![Folder].rars = @ \cup {name}]
\* downloaded[folder_name]["mp4s"].append(mp4_filename)
AppendMp4(d, name) == [d EXCEPT ![Folder].mp4s = @ \cup {name}]

\* How one call of save_downloaded can end: the dump completes; open/write
\* raises after the file was truncated; the process dies while writing.
WriteOutcomes == {"ok", "error", "crash"}

\* The synchronous code of a handler works on a record s:
\*   dl, file, mp4Disk   the values it reads and writes
\*   exc                 "none", or why it stopped: "write", "extract",
\*                       "nomedia", "crash"
\*   marked              the marks it made ("rar", "mp4")
\*   extract             what extract_rar did: "none", "present", "ok",
\*                       "failed", "nomedia"
Running(s) == s.exc = "none"

\* save_downloaded: open(path, 'w') truncates the file, json.dump then
\* writes the whole in-memory ledger into it.
save_downloaded(s, w) ==
    IF w = "ok" THEN [s EXCEPT !.file = [state |-> "ok", data |-> s.dl]]
    ELSE IF w = "error"
         THEN [s EXCEPT !.file = [state |-> "torn", data |-> EmptyLedger],
                        !.exc = "write"]
         ELSE [s EXCEPT !.file = [state |-> "torn", data |-> EmptyLedger],
                        !.exc = "crash"]

\* load_downloaded on a file of the current shape: {} when there is no file,
\* an exception of json.load when the file is not well-formed.
LoadFails(f) == f.state = "torn"
load_downloaded(f) == IF f.state = "ok" THEN f.data ELSE EmptyLedger

\* MarkRar that appends the name and leaves the file as it is
MarkRar_NoSave(s, name, w) ==
    IF name \in Rars(s.dl) THEN s
    ELSE [s EXCEPT !.dl = AppendRar(s.dl, name), !.marked = @ \cup {"rar"}]

\* if filename not in rars: append; save_downloaded      (main.py:560-562)
MarkRar(s, name, w) ==
    IF name \in Rars(s.dl) THEN s
    ELSE save_downloaded([s EXCEPT !.dl = AppendRar(s.dl, name),
                                   !.marked = @ \cup {"rar"}], w)

\* MarkMp4 that assigns the list instead of appending to it
MarkMp4_Overwrite(s, name, w) ==
    IF name \in Mp4s(s.dl) THEN s
    ELSE save_downloaded([s EXCEPT !.dl = [@ EXCEPT ![Folder].mp4s = {name}],
                                   !.marked = @ \cup {"mp4"}], w)

\* if mp4 not in mp4s: append; save_downloaded   (main.py:328-330, 569-571)
MarkMp4(s, name, w) ==
    IF name \in Mp4s(s.dl) THEN s
    ELSE save_downloaded([s EXCEPT !.dl = AppendMp4(s.dl, name),
                                   !.marked = @ \cup {"mp4"}], w)

\* ------------------------------------------------------------ extraction
\* How the extractor can end: a media file is produced; the tools report
\* failure; the archive holds no .mp4.
ExtractOutcomes == {"ok", "failed", "nomedia"}

\* extract_rar without the test of expected_mp4.exists()
extract_rar_NoShortCircuit(s, i, ex) ==
    IF ex = "failed" THEN [s EXCEPT !.extract = "failed", !.exc = "extract"]
    ELSE IF ex = "nomedia" THEN [s EXCEPT !.extract = "nomedia", !.exc = "nomedia"]
    ELSE [s EXCEPT !.extract = "ok", !.mp4Disk = @ \cup {MediaName(i)}]

\* extract_rar that returns without an exception when the archive held no
\* .mp4
extract_rar_NoMediaSilent(s, i, ex) ==
    IF MediaName(i) \in s.mp4Disk THEN [s EXCEPT !.extract = "present"]
    ELSE IF ex = "failed" THEN [s EXCEPT !.extract = "failed", !.exc = "extract"]
    ELSE IF ex = "nomedia" THEN [s EXCEPT !.extract = "nomedia"]
    ELSE [s EXCEPT !.extract = IF ex = "several" THEN "first" ELSE "ok",
                   !.mp4Disk = @ \cup {MediaName(i)}]

\* extract_rar(rar_path, output_dir) for the archive of item i. With several
\* .mp4 files in the archive (ex = "several", main.py:458-460) the first one
\* is moved to expected_mp4, as the only one is with ex = "ok".
extract_rar(s, i, ex) ==
    IF MediaName(i) \in s.mp4Disk THEN [s EXCEPT !.extract = "present"]
    ELSE IF ex = "failed" THEN [s EXCEPT !.extract = "failed", !.exc = "extract"]
    ELSE IF ex = "nomedia" THEN [s EXCEPT !.extract = "nomedia", !.exc = "nomedia"]
    ELSE [s EXCEPT !.extract = IF ex = "several" THEN "first" ELSE "ok",
                   !.mp4Disk = @ \cup {MediaName(i)}]

\* if (dir / mp4).exists(): mark the media produced
RegisterMp4(s, i, w) ==
    IF MediaName(i) \in s.mp4Disk THEN MarkMp4(s, MediaName(i), w) ELSE s

\* ExtractAndRegister that marks the media before it extracts
ExtractAndRegister_MarkFirst(s, i, ex, w) ==
    LET s1 == MarkMp4(s, MediaName(i), w)
    IN  IF Running(s1) THEN extract_rar(s1, i, ex) ELSE s1

\* extract_rar(...) and the media mark that follows it
\* (main.py:565-571, 326-330)
ExtractAndRegister(s, i, ex, w) ==
    LET s1 == extract_rar(s, i, ex)
    IN  IF Running(s1) THEN RegisterMp4(s1, i, w) ELSE s1

\* download_and_extract before the retry loop               (main.py:471-476)
ExistingMp4(s, i, w) == MarkMp4(s, MediaName(i), w)

\* ------------------------------------------------------- the fetch chain
\* What trigger_download_on_page(page, rar_path, timeout) can do on a page:
\*   none      no candidate selector matches           (raises, main.py:604)
\*   xferfail  a trigger is clicked, the download times out or fails
\*   saved     the download completes and is saved to rar_path
TriggerOutcomes == {"none", "xferfail", "saved"}

\* One page as download_and_extract meets it in one attempt:
\*   nav     dl_page.goto: "ok", "fail"
\*   body    the page text: "ready", "notready"
\*   trig    trigger_download_on_page(dl_page): a TriggerOutcome
\*   alt     the anchor query the code makes next,
\*           in the except branch (main.py:503-508):
\*             "none", "timeout" (no popup within 5 s), "popup"
\*           in the else branch (main.py:524-539):
\*             "none", "http" (an href to follow), "other" (no href to follow)
\*   follow  how the else branch's tactic ends,
\*           for "http":  "navfail", "none", "xferfail", "saved"
\*           for "other": "ok", "timeout" (expect_download on the first anchor)
Sc(nav, body, trig, alt, follow) ==
    [nav |-> nav, body |-> body, trig |-> trig, alt |-> alt, follow |-> follow]

Scenarios ==
    {Sc("fail", "na", "na", "na", "na"), Sc("ok", "notready", "na", "na", "na")}
    \cup {Sc("ok", "ready", t, a, "na") :
              t \in {"none", "xferfail"}, a \in {"none", "timeout", "popup"}}
    \cup {Sc("ok", "ready", "saved", "none", "na")}
    \cup {Sc("ok", "ready", "saved", "http", f) :
              f \in {"navfail", "none", "xferfail", "saved"}}
    \cup {Sc("ok", "ready", "saved", "other", f) : f \in {"ok", "timeout"}}

\* The result of the part of one attempt that runs on dl_page:
\*   result  "ok" (reaches break), "fail" (an exception reaches main.py:551),
\*           "notready" (return at main.py:494), "popup" (the attempt goes on
\*           in the popup of main.py:508)
\*   saved   a transfer completed and was saved to rar_path
\*   extra   a further tactic was run after a transfer had been saved
\*   trig    for "popup": what the trigger_download_on_page call that led
\*           to the popup had done, "none" or "xferfail"; else "na"
Att(result, saved, extra) ==
    [result |-> result, saved |-> saved, extra |-> extra, trig |-> "na"]

\* main.py:524-543, the else branch of the try around the first trigger
\* search: it runs when trigger_download_on_page returned normally.
ElseBranch(sc) ==
    IF sc.alt = "none" THEN Att("fail", TRUE, FALSE)
    ELSE IF sc.alt = "http"
         THEN IF sc.follow = "saved" THEN Att("ok", TRUE, TRUE)
              ELSE Att("fail", TRUE, TRUE)
         ELSE IF sc.follow = "ok" THEN Att("ok", TRUE, TRUE)
              ELSE Att("fail", TRUE, TRUE)

\* main.py:500-520, the except branch: any exception of the first
\* trigger_download_on_page, a failed search and a failed transfer alike.
ExceptBranch(sc) ==
    IF sc.alt = "popup"
    THEN [Att("popup", FALSE, FALSE) EXCEPT !.trig = sc.trig]
    ELSE Att("fail", FALSE, FALSE)

\* main.py:486-543
FetchOnPage(sc) ==
    IF sc.nav = "fail" THEN Att("fail", FALSE, FALSE)
    ELSE IF sc.body = "notready" THEN Att("notready", FALSE, FALSE)
    ELSE IF sc.trig = "saved" THEN ElseBranch(sc)
    ELSE ExceptBranch(sc)

\* ------------------------------------------------------------- the tasks
IdleTask ==
    [pc |-> "idle", status |-> "none", attempts |-> 0, result |-> "none",
     saved |-> FALSE, extra |-> FALSE, knownRar |-> FALSE, knownMp4 |-> FALSE,
     marked |-> {}, open |-> {}, trig |-> "na"]

\* The pages and popups a task holds open, each with the number of the
\* attempt that opened it.
\* context.new_page() (main.py:482), the popup of expect_popup (main.py:305,
\* 508)
OpenSurface(t, what) == [t EXCEPT !.open = @ \cup {<<what, t.attempts>>}]

\* ClosePage that leaves the page open
ClosePage_Leak(t) == t

\* finally: await dl_page.close()                          (main.py:556-557)
ClosePage(t) == [t EXCEPT !.open = @ \ {<<"page", t.attempts>>}]

\* finally: await popup.close()                   (main.py:318-322, 511-515)
ClosePopup(t) == [t EXCEPT !.open = @ \ {<<"popup", t.attempts>>}]

IsPopup(i) == kind[i] \in {"popup", "popupNoName"}
IsNamed(i) == kind[i] \in {"popup", "direct"}

\* rar_filename of popup_download_task (main.py:295, 307-308)
PopupArchive(i) == IF IsNamed(i) THEN ArchiveName(i) ELSE FallbackName(i)

Terminal(i) == task[i].pc = "term"

\* The outcomes of a task that ended on an exception. In download_task the
\* exception leaves the task and is collected by gather; in
\* popup_download_task it is caught and logged (main.py:331-332).
Failures == {"FetchFailed", "ExtractFailed", "WriteFailed"}

StatusOf(s) ==
    IF s.exc = "none" THEN "Done"
    ELSE IF s.exc = "write" THEN "WriteFailed"
    ELSE "ExtractFailed"

S0 == [dl |-> downloaded, file |-> file, mp4Disk |-> mp4Disk,
       exc |-> "none", marked |-> {}, extract |-> "none"]

\* The process died in save_downloaded: what it held in memory is gone, the
\* files stay as they are
Crash(s) ==
    /\ file' = s.file
    /\ mp4Disk' = s.mp4Disk
    /\ downloaded' = EmptyLedger
    /\ task' = [i \in Items |-> IdleTask]
    /\ sem' = max_downloads
    /\ lock' = 0
    /\ mainPc' = "crashed"

\* The task of item i ends with the marks of s, through the finally blocks
\* of its attempt; the attempt's own variables are gone
Ended(i, s, status) ==
    [ClosePage(ClosePopup(task[i])) EXCEPT !.pc = "term", !.status = status, !.result = "none",
                    !.saved = FALSE, !.extra = FALSE,
                    !.marked = @ \cup s.marked]

\* The task of item i ends after the synchronous code that ended in s, and
\* leaves `permits` free permits
Finish(i, s, status, permits) ==
    IF s.exc = "crash" THEN Crash(s)
    ELSE /\ downloaded' = s.dl
         /\ file' = s.file
         /\ mp4Disk' = s.mp4Disk
         /\ task' = [task EXCEPT ![i] = Ended(i, s, status)]
         /\ sem' = permits
         /\ UNCHANGED <<lock, mainPc>>

\* The task of item i calls extract_rar after the synchronous code that
\* ended in s. extract_rar is an ordinary function that waits for the tools
\* in subprocess.run (main.py:436-450): the thread of the event loop is
\* inside it until it returns, and mainPc says so.
StartExtraction(i, s) ==
    /\ downloaded' = s.dl
    /\ file' = s.file
    /\ mp4Disk' = s.mp4Disk
    /\ task' = [task EXCEPT ![i] =
                  [ClosePage(ClosePopup(@)) EXCEPT
                       !.pc = "extracting", !.result = "none",
                       !.saved = FALSE, !.extra = FALSE,
                       !.marked = @ \cup s.marked]]
    /\ mainPc' = "extracting"
    /\ UNCHANGED <<sem, lock>>

\* ------------------------------------------------ process_course, main
\* The tasks of a batch differ by their index alone and run in any order,
\* so one listing stands for all the listings that hold the same kinds:
\* the one that lists them in the order of KindRank.
KindRank(k) ==
    CASE k = "direct" -> 1
      [] k = "popup" -> 2
      [] k = "popupNoName" -> 3
      [] OTHER -> 4

Listings ==
    {f \in [Items -> Kinds] :
        \A i, j \in Items : i < j => KindRank(f[i]) <= KindRank(f[j])}

\* The first run of the program, on no files, with `permits` as the
\* MAX_CONCURRENT_DOWNLOADS setting
InitWith(permits) ==
    /\ kind \in Listings
    /\ task = [i \in Items |-> IdleTask]
    /\ downloaded = load_downloaded(NoFile)
    /\ file = NoFile
    /\ rarDisk = {}
    /\ mp4Disk = {}
    /\ max_downloads = permits
    /\ sem = permits
    /\ lock = 0
    /\ mainPc = "init"
    /\ run = 1
    /\ probe = NoProbe

\* Fewer permits than items: tasks wait for the semaphore
Init == InitWith(MaxDownloads)

\* A permit for every item, as with the default setting of 4 and up to 4
\* items: all the tasks of the batch are in flight together
InitConcurrent == InitWith(MaxItems)

\* EnsureEntry without the test `folder_name not in downloaded`
EnsureEntry_Reset(s, w) ==
    save_downloaded([s EXCEPT !.dl = Folder :> NewEntry], w)

\* main.py:224-232: the entry of the course is created and saved
EnsureEntry(s, w) ==
    IF HasEntry(s.dl) THEN s
    ELSE save_downloaded([s EXCEPT !.dl = Folder :> NewEntry], w)

\* AlreadyExtracted that looks the archive up in "rars"
AlreadyExtracted_ByArchive(i, d) == ArchiveName(i) \in Rars(d)

\* if mp4_filename in downloaded[folder_name]["mp4s"]    (main.py:297, 342)
AlreadyExtracted(i, d) == MediaName(i) \in Mp4s(d)

\* The scheduling loop of process_course for item i (main.py:277-354), on
\* the ledger d: a popup task is always scheduled; an item without offline
\* anchor is dropped when parse_li fails or its media is in the ledger.
Schedule(i, d) ==
    LET t == [IdleTask EXCEPT !.knownRar = IsNamed(i) /\ ArchiveName(i) \in Rars(d),
                              !.knownMp4 = IsNamed(i) /\ MediaName(i) \in Mp4s(d)]
    IN  IF IsPopup(i) THEN [t EXCEPT !.pc = "pending"]
        ELSE IF kind[i] = "directNoName"
             THEN [t EXCEPT !.pc = "term", !.status = "Unparsed"]
        ELSE IF AlreadyExtracted(i, d)
             THEN [t EXCEPT !.pc = "term", !.status = "Skipped"]
        ELSE [t EXCEPT !.pc = "pending"]

\* process_course up to the gather of the scheduled tasks (main.py:220-357).
\* An exception of save_downloaded at main.py:232 leaves process_course and
\* is caught by main (main.py:741): the run ends.
StartCourse ==
    /\ mainPc = "init"
    /\ \E s \in {EnsureEntry(S0, w) : w \in WriteOutcomes} :
         IF s.exc = "crash" THEN Crash(s)
         ELSE /\ downloaded' = s.dl
              /\ file' = s.file
              /\ mainPc' = IF Running(s) THEN "running" ELSE "aborted"
              /\ task' = IF Running(s) THEN [i \in Items |-> Schedule(i, s.dl)]
                         ELSE task
              /\ UNCHANGED <<mp4Disk, sem, lock>>
    /\ UNCHANGED <<probe, kind, max_downloads, rarDisk, run>>

\* ------------------------------------------------- popup_download_task
\* main.py:290-299: the ledger check that opens the task
PopupStart(i) ==
    /\ mainPc = "running"
    /\ IsPopup(i)
    /\ task[i].pc = "pending"
    /\ task' = [task EXCEPT ![i] =
                  IF IsNamed(i) /\ AlreadyExtracted(i, downloaded)
                  THEN [@ EXCEPT !.pc = "term", !.status = "Skipped"]
                  ELSE [@ EXCEPT !.pc = "waitsem"]]
    /\ UNCHANGED <<probe, kind, max_downloads, downloaded, file, rarDisk, mp4Disk, sem, lock, mainPc, run>>

\* main.py:300, async with download_sem
PopupAcquire(i) ==
    /\ mainPc = "running"
    /\ task[i].pc = "waitsem"
    /\ sem > 0
    /\ sem' = sem - 1
    /\ task' = [task EXCEPT ![i].pc = "waitlock"]
    /\ UNCHANGED <<probe, kind, max_downloads, downloaded, file, rarDisk, mp4Disk, lock, mainPc, run>>

\* PopupClick without page_click_lock
PopupClick_NoLock(i) ==
    /\ mainPc = "running"
    /\ task[i].pc = "waitlock"
    /\ lock' = i
    /\ task' = [task EXCEPT ![i].pc = "clicked", ![i].attempts = @ + 1]
    /\ UNCHANGED <<probe, kind, max_downloads, downloaded, file, rarDisk, mp4Disk, sem, mainPc, run>>

\* main.py:301-304: the lock is taken and the offline anchor clicked
PopupClick(i) ==
    /\ mainPc = "running"
    /\ task[i].pc = "waitlock"
    /\ lock = 0
    /\ lock' = i
    /\ task' = [task EXCEPT ![i].pc = "clicked", ![i].attempts = @ + 1]
    /\ UNCHANGED <<probe, kind, max_downloads, downloaded, file, rarDisk, mp4Disk, sem, mainPc, run>>

\* main.py:302-305: expect_popup ends, with the popup or with a timeout,
\* and the lock is released
PopupObserved_KeepPermit(i) ==
    /\ mainPc = "running"
    /\ task[i].pc = "clicked"
    /\ lock' = 0
    /\ \E opened \in BOOLEAN :
         IF opened
         THEN task' = [task EXCEPT ![i] =
                          OpenSurface([@ EXCEPT !.pc = "popupOpen"], "popup")]
         ELSE task' = [task EXCEPT ![i] = Ended(i, S0, "FetchFailed")]
    /\ UNCHANGED <<probe, kind, max_downloads, downloaded, file, rarDisk, mp4Disk, mainPc, run, sem>>

PopupObserved(i) ==
    /\ mainPc = "running"
    /\ task[i].pc = "clicked"
    /\ lock' = 0
    /\ \E opened \in BOOLEAN :
         IF opened
         THEN /\ task' = [task EXCEPT ![i] =
                             OpenSurface([@ EXCEPT !.pc = "popupOpen"], "popup")]
              /\ sem' = sem
         ELSE /\ task' = [task EXCEPT ![i] = Ended(i, S0, "FetchFailed")]
              /\ sem' = sem + 1
    /\ UNCHANGED <<probe, kind, max_downloads, downloaded, file, rarDisk, mp4Disk, mainPc, run>>

\* main.py:306-324: the download in the popup and the popup closed; then
\* the extraction starts, or the task ends and releases its permit
PopupDownload(i) ==
    /\ mainPc = "running"
    /\ task[i].pc = "popupOpen"
    /\ \E t \in TriggerOutcomes :
         IF t = "saved"
         THEN /\ rarDisk' = rarDisk \cup {PopupArchive(i)}
              /\ IF IsNamed(i) THEN StartExtraction(i, S0)
                 ELSE Finish(i, S0, "Done", sem + 1)
         ELSE /\ Finish(i, S0, "FetchFailed", sem + 1)
              /\ UNCHANGED rarDisk
    /\ UNCHANGED <<probe, kind, max_downloads, run>>

\* ------------------------------------- download_task, download_and_extract
\* main.py:346-349 and 466-482: the permit is taken; an existing media file
\* ends the task at once, otherwise the first attempt opens its page
DirectStart(i) ==
    /\ mainPc = "running"
    /\ kind[i] = "direct"
    /\ task[i].pc = "pending"
    /\ sem > 0
    /\ IF MediaName(i) \in mp4Disk
       THEN \E s \in {ExistingMp4(S0, i, w) : w \in WriteOutcomes} :
                  Finish(i, s, IF Running(s) THEN "Existing" ELSE StatusOf(s), sem)
       ELSE /\ task' = [task EXCEPT ![i] =
                           OpenSurface([@ EXCEPT !.pc = "page", !.attempts = 1],
                                       "page")]
            /\ sem' = sem - 1
            /\ UNCHANGED <<downloaded, file, mp4Disk, lock, mainPc>>
    /\ UNCHANGED <<probe, kind, max_downloads, rarDisk, run>>

\* main.py:486-543, the part of an attempt that runs on dl_page
DirectAttempt(i) ==
    /\ mainPc = "running"
    /\ task[i].pc = "page"
    /\ \E a \in {FetchOnPage(sc) : sc \in Scenarios} :
             /\ rarDisk' = IF a.saved THEN rarDisk \cup {ArchiveName(i)} ELSE rarDisk
             /\ task' = [task EXCEPT ![i] =
                           IF a.result = "popup"
                           THEN OpenSurface([@ EXCEPT !.pc = "fallbackPopup",
                                                      !.trig = a.trig],
                                            "popup")
                           ELSE [@ EXCEPT !.pc = "closing", !.result = a.result,
                                          !.saved = a.saved, !.extra = a.extra]]
    /\ UNCHANGED <<probe, kind, max_downloads, downloaded, file, mp4Disk, sem, lock, mainPc, run>>

\* main.py:508-518: the download in the popup of the except branch; the
\* popup is closed
DirectPopup(i) ==
    /\ mainPc = "running"
    /\ task[i].pc = "fallbackPopup"
    /\ \E t \in TriggerOutcomes :
         /\ rarDisk' = IF t = "saved" THEN rarDisk \cup {ArchiveName(i)} ELSE rarDisk
         /\ task' = [task EXCEPT ![i] =
                       ClosePopup([@ EXCEPT !.pc = "closing", !.trig = "na",
                                            !.result = IF t = "saved" THEN "ok"
                                                       ELSE "fail",
                                            !.saved = (t = "saved")])]
    /\ UNCHANGED <<probe, kind, max_downloads, downloaded, file, mp4Disk, sem, lock, mainPc, run>>

\* AttemptExit with the not-ready exit lost: the signal is handled like any
\* failed attempt
AttemptExit_NotReadyRetried(result, attempts) ==
    IF result = "ok" THEN "break"
    ELSE IF attempts < max_retries THEN "retry"
    ELSE "raise"

\* AttemptExit without the raise of the last attempt: the loop is left as
\* if the archive had been fetched
AttemptExit_NoRaise(result, attempts) ==
    IF result = "ok" THEN "break"
    ELSE IF result = "notready" THEN "return"
    ELSE IF attempts < max_retries THEN "retry"
    ELSE "break"

\* How the retry loop goes on after an attempt with this result, the
\* attempts-th of the call (main.py:481, 494, 550-555)
AttemptExit(result, attempts) ==
    IF result = "ok" THEN "break"
    ELSE IF result = "notready" THEN "return"
    ELSE IF attempts < max_retries THEN "retry"
    ELSE "raise"

\* main.py:550-562 and 350-351: dl_page is closed; then the next attempt
\* opens its page, or the task ends (return, raise, a failed write of the
\* archive mark) and releases its permit, or the archive is marked and the
\* extraction starts
DirectClose(i) ==
    /\ mainPc = "running"
    /\ task[i].pc = "closing"
    /\ CASE AttemptExit(task[i].result, task[i].attempts) = "break" ->
              \E s \in {MarkRar(S0, ArchiveName(i), w) : w \in WriteOutcomes} :
                    IF Running(s) THEN StartExtraction(i, s)
                    ELSE Finish(i, s, StatusOf(s), sem + 1)
         [] AttemptExit(task[i].result, task[i].attempts) = "return" ->
              Finish(i, S0, "NotReady", sem + 1)
         [] AttemptExit(task[i].result, task[i].attempts) = "retry" ->
              /\ task' = [task EXCEPT ![i] =
                            OpenSurface([ClosePage(@) EXCEPT
                                             !.pc = "page", !.attempts = @ + 1,
                                             !.result = "none", !.saved = FALSE,
                                             !.extra = FALSE], "page")]
              /\ UNCHANGED <<downloaded, file, mp4Disk, sem, lock, mainPc>>
         [] OTHER ->
              Finish(i, S0, "FetchFailed", sem + 1)
    /\ UNCHANGED <<probe, kind, max_downloads, rarDisk, run>>

\* main.py:565-571 and 326-332: extract_rar returns or raises, the media is
\* marked, the task ends and releases its permit
ExtractStep(i) ==
    /\ mainPc = "extracting"
    /\ task[i].pc = "extracting"
    /\ \E s \in {ExtractAndRegister(S0, i, ex, w) :
                   ex \in ExtractOutcomes, w \in WriteOutcomes} :
         IF s.exc = "crash" THEN Crash(s)
         ELSE /\ downloaded' = s.dl
              /\ file' = s.file
              /\ mp4Disk' = s.mp4Disk
              /\ task' = [task EXCEPT ![i] = Ended(i, s, StatusOf(s))]
              /\ sem' = sem + 1
              /\ mainPc' = "running"
              /\ UNCHANGED lock
    /\ UNCHANGED <<probe, kind, max_downloads, rarDisk, run>>

\* ------------------------------------------------------ the batch's end
\* gather without return_exceptions: it also returns at the first exception
\* that leaves a task
GatherReturns_FirstException ==
    \/ \A i \in Items : Terminal(i)
    \/ \E i \in Items : ~IsPopup(i) /\ task[i].status \in Failures

\* asyncio.gather(*tasks, return_exceptions=True) returns when every task
\* has ended (main.py:357)
GatherReturns == \A i \in Items : Terminal(i)

\* main.py:357-368 and 738: the batch is over, main saves the ledger
GatherDone ==
    /\ mainPc = "running"
    /\ GatherReturns
    /\ \E s \in {save_downloaded(S0, w) : w \in WriteOutcomes} :
         IF s.exc = "crash" THEN Crash(s)
         ELSE /\ file' = s.file
              /\ mainPc' = "done"
              /\ UNCHANGED <<task, downloaded, mp4Disk, sem, lock>>
    /\ UNCHANGED <<probe, kind, max_downloads, rarDisk, run>>

\* Rerun that goes on with an empty ledger when the file cannot be read
Rerun_IgnoreCorrupt ==
    /\ mainPc \in {"done", "aborted", "crashed"}
    /\ run < MaxRuns
    /\ run' = run + 1
    /\ mainPc' = "init"
    /\ downloaded' = load_downloaded(file)
    /\ task' = [i \in Items |-> IdleTask]
    /\ sem' = max_downloads
    /\ lock' = 0
    /\ UNCHANGED <<probe, kind, max_downloads, file, rarDisk, mp4Disk>>

\* The program is started again over the same files (main.py:695): the
\* ledger is loaded; a file that is not well-formed stops the run.
Rerun ==
    /\ mainPc \in {"done", "aborted", "crashed"}
    /\ run < MaxRuns
    /\ run' = run + 1
    /\ IF LoadFails(file)
       THEN /\ mainPc' = "corrupt"
            /\ downloaded' = EmptyLedger
       ELSE /\ mainPc' = "init"
            /\ downloaded' = load_downloaded(file)
    /\ task' = [i \in Items |-> IdleTask]
    /\ sem' = max_downloads
    /\ lock' = 0
    /\ UNCHANGED <<probe, kind, max_downloads, file, rarDisk, mp4Disk>>

Next ==
    \/ StartCourse
    \/ \E i \in Items : PopupStart(i)
    \/ \E i \in Items : PopupAcquire(i)
    \/ \E i \in Items : PopupClick(i)
    \/ \E i \in Items : PopupObserved(i)
    \/ \E i \in Items : PopupDownload(i)
    \/ \E i \in Items : DirectStart(i)
    \/ \E i \in Items : DirectAttempt(i)
    \/ \E i \in Items : DirectPopup(i)
    \/ \E i \in Items : DirectClose(i)
    \/ \E i \in Items : ExtractStep(i)
    \/ GatherDone
    \/ Rerun

Spec == Init /\ [][Next]_vars

SpecConcurrent == InitConcurrent /\ [][Next]_vars

\* One run of the program on the files an earlier run may have left: none,
\* or the archive, the media and the ledger of the first item, which that
\* run had fetched and extracted (a popup task marks no archive).
LeftBehind(k, known) ==
    [state |-> "ok",
     data |-> Folder :> [rars |-> {ArchiveName(i) : i \in {j \in known : k[j] = "direct"}},
                         mp4s |-> {MediaName(i) : i \in known}]]

InitFair ==
    /\ kind \in Listings
    /\ \E known \in {{}, {1}} :
         /\ \A i \in known : IsNamed(i)
         /\ file = IF known = {} THEN NoFile ELSE LeftBehind(kind, known)
         /\ rarDisk = {ArchiveName(i) : i \in known}
         /\ mp4Disk = {MediaName(i) : i \in known}
    /\ downloaded = load_downloaded(file)
    /\ task = [i \in Items |-> IdleTask]
    /\ max_downloads = MaxDownloads
    /\ sem = MaxDownloads
    /\ lock = 0
    /\ mainPc = "init"
    /\ run = 1
    /\ probe = NoProbe

NextBatch ==
    \/ StartCourse
    \/ \E i \in Items : PopupStart(i)
    \/ \E i \in Items : PopupAcquire(i)
    \/ \E i \in Items : PopupClick(i)
    \/ \E i \in Items : PopupObserved(i)
    \/ \E i \in Items : PopupDownload(i)
    \/ \E i \in Items : DirectStart(i)
    \/ \E i \in Items : DirectAttempt(i)
    \/ \E i \in Items : DirectPopup(i)
    \/ \E i \in Items : DirectClose(i)
    \/ \E i \in Items : ExtractStep(i)
    \/ GatherDone

\* What the event loop and the assumption that every external call returns
\* or times out give: as long as some coroutine of the run can take a step
\* (its await has completed, or the permit or the lock it waits for is
\* free), the event loop resumes one. Nothing is assumed about which one.
Fairness == WF_vars(NextBatch)

SpecFair == InitFair /\ [][NextBatch]_vars /\ Fairness

\* ------------------------------------------------- extract_rar alone
\* extract_rar called up to MaxCalls times on any directories: each archive
\* and each media file is there or not.
\* probe: calls   the number of calls made
\*        item    the item of the last call
\*        before  the extract directory before the last call
\*        tool    what the tools did in the last call, "notrun" when they
\*                were not run
\*        ret     what the last call did (the `extract` of its record)
\*        exc     the exception of the last call, "none" when it returned
\*        made    the items whose media file a call has produced
\*        seen    what the tools did in the calls made
InitExtract ==
    /\ kind = [i \in Items |-> "direct"]
    /\ task = [i \in Items |-> IdleTask]
    /\ downloaded = EmptyLedger
    /\ file = NoFile
    /\ rarDisk \in SUBSET {ArchiveName(i) : i \in Items}
    /\ mp4Disk \in SUBSET {MediaName(i) : i \in Items}
    /\ max_downloads = MaxDownloads
    /\ sem = MaxDownloads
    /\ lock = 0
    /\ mainPc = "probe"
    /\ run = 1
    /\ probe = [op |-> "extract_rar", calls |-> 0, item |-> 0, before |-> {},
                tool |-> "notrun", ret |-> "none", exc |-> "none",
                made |-> {}, seen |-> {}]

\* What the tools can do with the archive of item i: they fail on an archive
\* that is not there (main.py:436-453); an archive can hold several .mp4
\* files (main.py:458-460)
ToolOutcomes(i) ==
    IF ArchiveName(i) \in rarDisk THEN ExtractOutcomes \cup {"several"}
    ELSE {"failed"}

\* What the tools did in a call that ended in s
ToolRun(s, ex) == IF s.extract = "present" THEN "notrun" ELSE ex

\* One call extract_rar(rar_path of item i, output_dir)
ExtractCall(i) ==
    /\ probe.op = "extract_rar"
    /\ probe.calls < MaxCalls
    /\ \E c \in {[tool |-> ToolRun(extract_rar(S0, i, ex), ex),
                    s |-> extract_rar(S0, i, ex)] : ex \in ToolOutcomes(i)} :
         /\ mp4Disk' = c.s.mp4Disk
         /\ probe' = [probe EXCEPT
                         !.calls = @ + 1, !.item = i, !.before = mp4Disk,
                         !.tool = c.tool, !.ret = c.s.extract,
                         !.exc = c.s.exc,
                         !.made = IF c.s.extract \in {"ok", "first"}
                                  THEN @ \cup {i} ELSE @,
                         !.seen = IF c.tool = "notrun" THEN @
                                  ELSE @ \cup {c.tool}]
    /\ UNCHANGED <<kind, task, downloaded, file, rarDisk, max_downloads, sem,
                   lock, mainPc, run>>

NextExtract == \E i \in Items : ExtractCall(i)

SpecExtract == InitExtract /\ [][NextExtract]_vars

\* -------------------------------------------- load_downloaded alone
\* The JSON values of a ledger file: a list of names, and the object of an
\* entry of the current shape (its two folder strings are left out)
JList(names) == [shape |-> "list", names |-> names]
JEntry(rars, mp4s) == [shape |-> "dict", rars |-> JList(rars), mp4s |-> JList(mp4s)]

LegacyValues == {JList(m) : m \in SUBSET Items}
FullValues == {JEntry(r, m) : r, m \in SUBSET Items}

\* The objects json.load can return: the values of the file's entries in
\* the order of the file (an entry's key is its position)
LedgerFiles ==
    UNION {[1..n -> LegacyValues \cup FullValues] : n \in 0..MaxEntries}

\* main.py:640-648: every value becomes the "mp4s" of a new entry
migrated(data) ==
    [k \in DOMAIN data |->
        [shape |-> "dict", rars |-> JList({}), mp4s |-> data[k]]]

\* main.py:637-649: the migration is made when the first value of the file
\* is a list
LoadedData(data) ==
    IF data # <<>> /\ data[1].shape = "list" THEN migrated(data) ELSE data

InitLoad ==
    /\ kind = [i \in Items |-> "direct"]
    /\ task = [i \in Items |-> IdleTask]
    /\ downloaded = EmptyLedger
    /\ file = NoFile
    /\ rarDisk = {}
    /\ mp4Disk = {}
    /\ max_downloads = MaxDownloads
    /\ sem = MaxDownloads
    /\ lock = 0
    /\ mainPc = "probe"
    /\ run = 1
    /\ probe \in {[op |-> "load_downloaded", data |-> d, loaded |-> FALSE,
                    out |-> <<>>] : d \in LedgerFiles}

\* One call load_downloaded() on the file probe.data
LoadCall ==
    /\ probe.op = "load_downloaded"
    /\ ~probe.loaded
    /\ probe' = [probe EXCEPT !.loaded = TRUE, !.out = LoadedData(probe.data)]
    /\ UNCHANGED <<kind, task, downloaded, file, rarDisk, mp4Disk,
                   max_downloads, sem, lock, mainPc, run>>

NextLoad == LoadCall

SpecLoad == InitLoad /\ [][NextLoad]_vars

\* --------------------------------------------------- parse_li alone
\* A run of digits of the text, in ASCII digits or in Persian digits: \\d
\* of a str pattern matches both, and int() reads both.
Scripts == {"ascii", "persian"}
Numeral(script, digits) == [script |-> script, digits |-> digits]
Ascii(digits) == Numeral("ascii", digits)

RECURSIVE ValueOf(_)
ValueOf(digits) ==
    IF digits = <<>> THEN 0
    ELSE 10 * ValueOf(SubSeq(digits, 1, Len(digits) - 1)) + digits[Len(digits)]

\* int(text)
IntOf(numeral) == ValueOf(numeral.digits)

RECURSIVE DigitsOf(_)
DigitsOf(n) == IF n < 10 THEN <<n>> ELSE Append(DigitsOf(n \div 10), n % 10)

\* f"{n:02d}": ASCII digits, at least two of them
Fmt02(n) == Ascii(IF n < 10 THEN <<0, n>> ELSE DigitsOf(n))

\* PERSIAN_MONTHS (main.py:45-58), the names transliterated
PERSIAN_MONTHS ==
    [m \in {"farvardin", "ordibehesht", "khordad", "tir", "mordad",
            "shahrivar", "mehr", "aban", "azar", "dey", "bahman", "esfand"} |->
        CASE m = "farvardin" -> Ascii(<<0, 1>>)
          [] m = "ordibehesht" -> Ascii(<<0, 2>>)
          [] m = "khordad" -> Ascii(<<0, 3>>)
          [] m = "tir" -> Ascii(<<0, 4>>)
          [] m = "mordad" -> Ascii(<<0, 5>>)
          [] m = "shahrivar" -> Ascii(<<0, 6>>)
          [] m = "mehr" -> Ascii(<<0, 7>>)
          [] m = "aban" -> Ascii(<<0, 8>>)
          [] m = "azar" -> Ascii(<<0, 9>>)
          [] m = "dey" -> Ascii(<<1, 0>>)
          [] m = "bahman" -> Ascii(<<1, 1>>)
          [] OTHER -> Ascii(<<1, 2>>)]

\* PERIOD_OFFSET (main.py:38-43): sobh (morning), zohr (noon), asr
\* (afternoon), shab (night)
PERIOD_OFFSET ==
    [p \in {"sobh", "zohr", "asr", "shab"} |-> IF p = "sobh" THEN 0 ELSE 12]

\* PERSIAN_MONTHS.get(mon_name, '00')
MonthOf(mon_name) ==
    IF mon_name \in DOMAIN PERSIAN_MONTHS THEN PERSIAN_MONTHS[mon_name]
    ELSE Ascii(<<0, 0>>)

\* The hour without the reduction modulo 12
HourOf_NoMod(hour, period) ==
    IntOf(hour)
        + (IF period \in DOMAIN PERIOD_OFFSET THEN PERIOD_OFFSET[period] ELSE 0)

\* (int(hour) % 12) + PERIOD_OFFSET.get(period, 0)
HourOf(hour, period) ==
    (IntOf(hour) % 12)
        + (IF period \in DOMAIN PERIOD_OFFSET THEN PERIOD_OFFSET[period] ELSE 0)

\* The fragment of a listing entry as parse_li reads it:
\*   shape  "nolink" (no offline anchor, main.py:375), "nogroup" (no
\*          parenthesised group with a month name and three parts, 390),
\*          "nodate" (396-399), "notime" (404-407), "full"
\*   day, mon_name, year, hour, minute, period  the groups of the two
\*          regular expressions
Fragment(shape, script, day, mon_name, year, hour, minute, period) ==
    [shape |-> shape, day |-> Numeral(script, day), mon_name |-> mon_name,
     year |-> Numeral(script, year), hour |-> Numeral(script, hour),
     minute |-> Numeral(script, minute), period |-> period]

Fragments ==
    {Fragment(sh, sc, d, mo, <<1, 4, 0, 2>>, h, mi, pe) :
        sh \in {"nolink", "nogroup", "nodate", "notime", "full"},
        sc \in Scripts,
        d \in {<<1, 4>>, <<5>>},
        mo \in {"mehr", "dey", "other"},
        h \in {<<0>>, <<3>>, <<1, 0>>, <<1, 2>>, <<2, 3>>},
        mi \in {<<3, 0>>, <<5>>},
        pe \in {"sobh", "zohr", "asr", "shab", "other"}}

\* The fields of f"{idx_str}_{date_str}_{time_str}.rar" (main.py:411-414)
FileName(idx, year, mon, day, hour, minute, ext) ==
    [idx |-> idx, year |-> year, mon |-> mon, day |-> day, hour |-> hour,
     minute |-> minute, ext |-> ext]

None == [ok |-> FALSE]

\* parse_li(li_html, idx): None, or the filename (the href it returns with
\* it is left out)
parse_li(li, idx) ==
    IF li.shape # "full" THEN None
    ELSE [ok |-> TRUE,
          filename |-> FileName(Fmt02(idx), li.year, MonthOf(li.mon_name),
                                Fmt02(IntOf(li.day)),
                                Fmt02(HourOf(li.hour, li.period)),
                                Fmt02(IntOf(li.minute)), "rar")]

\* filename.replace('.rar', '.mp4')                     (main.py:296, 341)
Mp4Filename(filename) == [filename EXCEPT !.ext = "mp4"]

InitParse ==
    /\ kind = [i \in Items |-> "direct"]
    /\ task = [i \in Items |-> IdleTask]
    /\ downloaded = EmptyLedger
    /\ file = NoFile
    /\ rarDisk = {}
    /\ mp4Disk = {}
    /\ max_downloads = MaxDownloads
    /\ sem = MaxDownloads
    /\ lock = 0
    /\ mainPc = "probe"
    /\ run = 1
    /\ probe \in {[op |-> "parse_li", li |-> f, idx |-> n, called |-> FALSE,
                    out |-> None] : f \in Fragments, n \in 1..MaxIndex}

\* One call parse_li(probe.li, probe.idx)
ParseCall ==
    /\ probe.op = "parse_li"
    /\ ~probe.called
    /\ probe' = [probe EXCEPT !.called = TRUE,
                              !.out = parse_li(probe.li, probe.idx)]
    /\ UNCHANGED <<kind, task, downloaded, file, rarDisk, mp4Disk,
                   max_downloads, sem, lock, mainPc, run>>

NextParse == ParseCall

SpecParse == InitParse /\ [][NextParse]_vars

\* ---------------------------------------------- get_course_ids alone
\* The second half of get_course_ids (main.py:176-217): one coroutine
\* get_onlineclass_for_course per course of the listing, all of them given
\* to asyncio.gather. main awaits get_course_ids before it calls
\* process_course (main.py:717-736): no download task exists yet.
\* probe: max_workers  the argument of get_course_ids
\*        sem          the free permits of asyncio.Semaphore(max_workers)
\*        course       for each course, where its coroutine stands:
\*             pc      "waiting" (async with sem), "acquired" (before
\*                     context.new_page), "open" (goto, wait_for_selector,
\*                     query_selector), "closing" (page2.close()), "done"
\*             page2   whether its page is open
\*             out     "none", "found", "notfound", "error"
\*        gathered     whether asyncio.gather has returned
\*        courses      the courses collected from the results
Courses == 1..MaxCourses

Resolutions == {"found", "notfound", "error"}

InitCourses ==
    /\ kind = [i \in Items |-> "direct"]
    /\ task = [i \in Items |-> IdleTask]
    /\ downloaded = EmptyLedger
    /\ file = NoFile
    /\ rarDisk = {}
    /\ mp4Disk = {}
    /\ max_downloads = MaxDownloads
    /\ sem = MaxDownloads
    /\ lock = 0
    /\ mainPc = "probe"
    /\ run = 1
    /\ probe \in {[op |-> "get_course_ids", max_workers |-> w, sem |-> w,
                    course |-> [c \in Courses |->
                                  [pc |-> "waiting", page2 |-> FALSE,
                                   out |-> "none"]],
                    gathered |-> FALSE, courses |-> {}] :
                        w \in 1..MaxWorkers}

CourseStep(c, pc, page2, out, permits) ==
    /\ probe' = [probe EXCEPT !.course[c] = [pc |-> pc, page2 |-> page2,
                                             out |-> out],
                              !.sem = permits]
    /\ UNCHANGED <<kind, task, downloaded, file, rarDisk, mp4Disk,
                   max_downloads, sem, lock, mainPc, run>>

\* async with sem                                         (main.py:181)
CourseAcquire(c) ==
    /\ probe.op = "get_course_ids"
    /\ probe.course[c].pc = "waiting"
    /\ probe.sem > 0
    /\ CourseStep(c, "acquired", FALSE, "none", probe.sem - 1)

\* page2 = await context.new_page(): the page is open, or the call raises,
\* the exception is caught at main.py:206 and the permit is released
CourseNewPage(c) ==
    /\ probe.op = "get_course_ids"
    /\ probe.course[c].pc = "acquired"
    /\ \/ CourseStep(c, "open", TRUE, "none", probe.sem)
       \/ CourseStep(c, "done", FALSE, "error", probe.sem + 1)

\* main.py:186-203: the page is loaded and searched; the module id is found,
\* or it is not, or a call raises. In each case the finally clause is next.
CourseResolve(c) ==
    /\ probe.op = "get_course_ids"
    /\ probe.course[c].pc = "open"
    /\ \E out \in Resolutions : CourseStep(c, "closing", TRUE, out, probe.sem)

\* The finally clause that leaves the page open after an exception
ClosePage2_NotOnError(out) == out = "error"

\* finally: await page2.close()  (main.py:204-205): whether the page is
\* still open afterwards
ClosePage2(out) == FALSE

\* page2.close() has returned; return or except, and the permit is released
\* at the end of `async with sem`                       (main.py:204-208)
CourseClose(c) ==
    /\ probe.op = "get_course_ids"
    /\ probe.course[c].pc = "closing"
    /\ CourseStep(c, "done", ClosePage2(probe.course[c].out),
                  probe.course[c].out, probe.sem + 1)

\* results = await asyncio.gather(*tasks); the courses with a module id are
\* collected                                            (main.py:210-217)
CoursesGathered ==
    /\ probe.op = "get_course_ids"
    /\ ~probe.gathered
    /\ \A c \in Courses : probe.course[c].pc = "done"
    /\ probe' = [probe EXCEPT
                    !.gathered = TRUE,
                    !.courses = {c \in Courses : probe.course[c].out = "found"}]
    /\ UNCHANGED <<kind, task, downloaded, file, rarDisk, mp4Disk,
                   max_downloads, sem, lock, mainPc, run>>

NextCourses ==
    \/ \E c \in Courses : CourseAcquire(c)
    \/ \E c \in Courses : CourseNewPage(c)
    \/ \E c \in Courses : CourseResolve(c)
    \/ \E c \in Courses : CourseClose(c)
    \/ CoursesGathered

SpecCourses == InitCourses /\ [][NextCourses]_vars

\* ================================================================ claims
\* C1: within one fetch attempt, once a transfer has completed and its bytes
\* are saved, the attempt ends with success: no further tactic is run and
\* the attempt is not counted as failed (so no retry follows it).
C1_SavedEndsAttempt ==
    \A i \in Items :
        (task[i].pc = "closing" /\ task[i].saved)
            => (task[i].result = "ok" /\ ~task[i].extra)

\* C2: an attempt that saw the not-ready signal ran no tactic, and the step
\* that follows it ends the task as NotReady with no further attempt and no
\* change of the ledger or its file; a NotReady item has marked nothing.
C2_NotReadyIsTerminal ==
    /\ [](\A i \in Items :
            /\ task[i].result = "notready"
                 => (task[i].pc = "closing" /\ ~task[i].saved /\ ~task[i].extra)
            /\ task[i].status = "NotReady"
                 => (task[i].pc = "term" /\ task[i].marked = {}))
    /\ [][\A i \in Items :
            (task[i].result = "notready" /\ task'[i] # task[i] /\ mainPc' # "crashed")
                => /\ task'[i].status = "NotReady"
                   /\ task'[i].attempts = task[i].attempts
                   /\ downloaded' = downloaded
                   /\ file' = file]_vars

\* C2 witness: a batch is over in which an item ended as NotReady on its
\* first attempt
C2_Witness ==
    \E i \in Items :
        task[i].status = "NotReady" /\ task[i].attempts = 1 /\ mainPc = "done"

\* C3: an item whose fetch is given up after failed attempts was attempted
\* exactly max_retries times, whichever way it is fetched.
C3_FailedAfterMaxAttempts ==
    \A i \in Items :
        task[i].status = "FetchFailed" => task[i].attempts = max_retries

\* The items whose task made the mark m in this batch, and the names the
\* ledger held when the batch was scheduled
MarkedBy(m) == {i \in Items : IsNamed(i) /\ m \in task[i].marked}
KnownRars == {ArchiveName(i) : i \in {j \in Items : task[j].knownRar}}
KnownMp4s == {MediaName(i) : i \in {j \in Items : task[j].knownMp4}}

\* C4: whenever the last write of the ledger file succeeded (the file is
\* well-formed exactly then), the file and the in-memory ledger hold exactly
\* the names the collection had when the batch was scheduled plus every name
\* marked by a task since: no mark is lost, whatever the order in which the
\* tasks ran.
C4_NoLostUpdate ==
    (mainPc \in {"running", "done"} /\ file.state = "ok")
        => /\ file.data = downloaded
           /\ Rars(file.data) = KnownRars \cup {ArchiveName(i) : i \in MarkedBy("rar")}
           /\ Mp4s(file.data) = KnownMp4s \cup {MediaName(i) : i \in MarkedBy("mp4")}

\* C4 witness: a batch is over in which two tasks marked the ledger, one an
\* archive and its media, the other its media
C4_Witness ==
    /\ mainPc = "done"
    /\ file.state = "ok"
    /\ \E i, j \in Items :
         /\ i # j
         /\ task[i].marked = {"rar", "mp4"}
         /\ task[j].marked = {"mp4"}

\* C5: the ledger file always holds a complete ledger, the one before or the
\* one after the mutation being written: never an empty or truncated file.
C5_AtomicPersist == file.state # "torn"

\* C6: an item whose media name is in the ledger when the batch is scheduled
\* is skipped: no attempt (navigation, click, download), no mark, and its
\* task is either not started yet or ended as Skipped.
C6_KnownMediaSkipped ==
    \A i \in Items :
        task[i].knownMp4
            => /\ task[i].pc \in {"pending", "term"}
               /\ task[i].status \in {"none", "Skipped"}
               /\ task[i].attempts = 0
               /\ task[i].marked = {}

\* C6 witness: a batch is over in which an item with and an item without
\* offline anchor were skipped for media the ledger already held
C6_Witness ==
    /\ mainPc = "done"
    /\ \E i, j \in Items :
         /\ IsPopup(i) /\ task[i].knownMp4 /\ task[i].status = "Skipped"
         /\ ~IsPopup(j) /\ task[j].knownMp4 /\ task[j].status = "Skipped"

\* C7: the failure of one item leaves every other task as it is, the batch
\* ends only when every task has ended, and no item's failure aborts it.
C7_FailureStaysLocal ==
    /\ [](/\ mainPc = "done" => \A i \in Items : Terminal(i)
          /\ mainPc = "aborted" => \A i \in Items : task[i].pc = "idle")
    /\ [][\A i \in Items :
            (task[i].status = "none" /\ task'[i].status \in Failures)
                => \A j \in Items \ {i} : task'[j] = task[j]]_vars

\* C7 witness: a batch is over in which an exception left one download task
\* and another item was fetched and marked
C7_Witness ==
    /\ mainPc = "done"
    /\ \E i, j \in Items :
         /\ task[i].status \in Failures /\ ~IsPopup(i)
         /\ task[j].status = "Done" /\ task[j].marked # {}

\* C8: after a batch of a fresh collection in which one item was fetched and
\* extracted and the other one ended as NotReady, the ledger holds exactly
\* the successful item's archive name and media name.
C8_OnePairRecorded ==
    \A i, j \in Items :
        (/\ mainPc = "done" /\ run = 1
         /\ IsNamed(i) /\ task[i].status = "Done"
         /\ task[j].status = "NotReady"
         /\ \A k \in Items \ {i, j} : task[k].status = "Unparsed")
            => /\ Rars(downloaded) = {ArchiveName(i)}
               /\ Mp4s(downloaded) = {MediaName(i)}

\* C9: an item whose extraction failed after its fetch succeeded has its
\* archive name in the ledger and its media name not.
C9_ArchiveKeptOnExtractFailure ==
    \A i \in Items :
        task[i].status = "ExtractFailed"
            => /\ ArchiveName(i) \in Rars(downloaded)
               /\ MediaName(i) \notin Mp4s(downloaded)

\* C10: an item whose archive name is in the ledger when the batch is
\* scheduled, and whose media name is not, is not fetched again.
C10_KnownArchiveNotRefetched ==
    \A i \in Items :
        (task[i].knownRar /\ ~task[i].knownMp4) => task[i].attempts = 0

\* C11: every media name of the ledger, in memory and in the file, has its
\* file in the extract directory, and every archive name of the ledger has
\* its file in the download directory.
C11_LedgerImpliesFiles ==
    /\ Mp4s(downloaded) \subseteq mp4Disk
    /\ Rars(downloaded) \subseteq rarDisk
    /\ Mp4s(file.data) \subseteq mp4Disk
    /\ Rars(file.data) \subseteq rarDisk

\* C11 witness: a second run has loaded a ledger that holds an archive name
\* and a media name
C11_Witness ==
    /\ run = 2
    /\ mainPc = "init"
    /\ Rars(downloaded) # {}
    /\ Mp4s(downloaded) # {}

\* The pages and popups open for fetch attempts
OpenSurfaces == UNION {{<<i, o>> : o \in task[i].open} : i \in Items}

\* C12: the number of download pages and popups open at the same time is at
\* most the MAX_CONCURRENT_DOWNLOADS setting.
C12_SurfacesWithinLimit == Cardinality(OpenSurfaces) <= max_downloads

\* The tasks between their click on the listing page and the end of the
\* wait for the popup of that click
Clicking == {i \in Items : task[i].pc = "clicked"}

\* C13: at most one task is between its click on the listing page and the
\* end of its wait for the popup, that task holds the lock, and no task
\* clicks while another one is waiting for its popup.
C13_ClicksSerialized ==
    /\ [](/\ Cardinality(Clicking) <= 1
          /\ \A i \in Clicking : lock = i)
    /\ [][\A i \in Items :
            (task[i].pc # "clicked" /\ task'[i].pc = "clicked")
                => Clicking = {}]_vars

\* C13 witness: a task waits for its popup while another task, which holds
\* a permit, waits to click
C13_Witness ==
    \E i, j \in Items :
        task[i].pc = "clicked" /\ task[j].pc = "waitlock"

\* C14: a call of extract_rar that finds the media file of its archive in
\* the extract directory runs no tool and changes no file, and a call that
\* follows a successful call for the same archive runs no tool either.
C14_ExtractIdempotent ==
    /\ []((probe.op = "extract_rar" /\ probe.calls > 0
              /\ MediaName(probe.item) \in probe.before)
            => (/\ probe.ret = "present"
                /\ probe.tool = "notrun"
                /\ mp4Disk = probe.before))
    /\ [][(/\ probe.op = "extract_rar"
            /\ probe.ret \in {"ok", "first", "present"}
            /\ probe'.calls = probe.calls + 1
            /\ probe'.item = probe.item)
               => (/\ probe'.ret = "present"
                   /\ mp4Disk' = mp4Disk
                   /\ rarDisk' = rarDisk)]_vars

\* C14 witness: a call found the media file that an earlier call produced
C14_Witness ==
    /\ probe.op = "extract_rar"
    /\ probe.ret = "present"
    /\ probe.item \in probe.made

\* C15: load_downloaded returns, for every entry of the file that is a bare
\* list of media names, the full entry with those media names and no
\* archive name, and every entry of the full shape as it is, wherever the
\* entry stands in the file and whatever the other entries are.
C15_LegacyUpgraded ==
    (probe.op = "load_downloaded" /\ probe.loaded)
        => /\ DOMAIN probe.out = DOMAIN probe.data
           /\ \A k \in DOMAIN probe.data :
                IF probe.data[k].shape = "list"
                THEN probe.out[k] = JEntry({}, probe.data[k].names)
                ELSE probe.out[k] = probe.data[k]

\* C16: every page or popup a task holds open was opened by its current
\* attempt, the popup of an attempt is closed before its page is, and a
\* task that has ended holds nothing open, however it ended.
C16_SurfacesClosed ==
    \A i \in Items :
        /\ \A o \in task[i].open : o[2] = task[i].attempts
        /\ task[i].pc = "closing" => task[i].open = {<<"page", task[i].attempts>>}
        /\ Terminal(i) => task[i].open = {}

\* C16 witness: an item ended on the not-ready exit of its second attempt,
\* and another item has opened the page of its third attempt
C16_Witness ==
    \E i, j \in Items :
        /\ task[i].status = "NotReady" /\ task[i].attempts = 2
        /\ task[j].pc = "page" /\ task[j].attempts = max_retries
        /\ task[j].open = {<<"page", max_retries>>}

\* C17: a failed write of the ledger is only reported: it does not end the
\* processing of the course, and the task whose archive mark could not be
\* written goes on to the extraction instead of ending on that failure.
C17_WriteFailureOnlyReported ==
    /\ mainPc # "aborted"
    /\ \A i \in Items :
         ~(task[i].status = "WriteFailed" /\ task[i].marked = {"rar"})

\* C18: an item for which parse_li gave None is skipped: no click, no page
\* or popup, no download, no file and no mark for it.
C18_UnparsedSkipped ==
    \A i \in Items :
        ~IsNamed(i)
            => /\ task[i].attempts = 0
               /\ task[i].open = {}
               /\ task[i].marked = {}
               /\ FallbackName(i) \notin rarDisk

\* C20: no step of a running process removes a name from the archive names
\* or the media names of the ledger, or the entry of the collection.
C20_LedgerOnlyGrows ==
    [][(run' = run /\ mainPc' # "crashed")
          => /\ DOMAIN downloaded \subseteq DOMAIN downloaded'
             /\ Rars(downloaded) \subseteq Rars(downloaded')
             /\ Mp4s(downloaded) \subseteq Mp4s(downloaded')]_vars

\* C20 witness: the second run is over, it loaded a ledger with a media
\* name and added an archive name and a media name to it
C20_Witness ==
    /\ run = 2
    /\ mainPc = "done"
    /\ \E i, j \in Items :
         /\ task[i].knownMp4
         /\ task[j].marked = {"rar", "mp4"}

\* The fragment of the example: an offline link and the group
\* (something, 14 Mehr 1402, 10:30 sobh) written in Persian digits
ExampleFragment ==
    Fragment("full", "persian", <<1, 4>>, "mehr", <<1, 4, 0, 2>>, <<1, 0>>,
             <<3, 0>>, "sobh")

\* 03_1402-07-14_10-30 in ASCII digits
ExampleName(ext) ==
    FileName(Ascii(<<0, 3>>), Ascii(<<1, 4, 0, 2>>), Ascii(<<0, 7>>),
             Ascii(<<1, 4>>), Ascii(<<1, 0>>), Ascii(<<3, 0>>), ext)

\* C19: parse_li on the example fragment with index 3 gives the archive name
\* 03_1402-07-14_10-30.rar and the media name 03_1402-07-14_10-30.mp4, and
\* every numeric field of a name that parse_li gives is in ASCII digits.
C19_AsciiName ==
    (probe.op = "parse_li" /\ probe.called /\ probe.out.ok)
        => /\ \A f \in {"idx", "year", "mon", "day", "hour", "minute"} :
                probe.out.filename[f].script = "ascii"
           /\ (probe.li = ExampleFragment /\ probe.idx = 3)
                => /\ probe.out.filename = ExampleName("rar")
                   /\ Mp4Filename(probe.out.filename) = ExampleName("mp4")

\* C21: a call of extract_rar in which the tools report failure ends with
\* the extraction-failed exception, one in which they leave no .mp4 ends
\* with the no-media exception, and neither puts a file in the extract
\* directory; a call in which they leave several .mp4 files returns and
\* installs the target file, as a call in which they leave one.
C21_ExtractFailures ==
    (probe.op = "extract_rar" /\ probe.calls > 0)
        => /\ probe.tool = "failed"
                => (probe.exc = "extract" /\ mp4Disk = probe.before)
           /\ probe.tool = "nomedia"
                => (probe.exc = "nomedia" /\ mp4Disk = probe.before)
           /\ probe.tool \in {"several", "ok"}
                => /\ probe.exc = "none"
                   /\ MediaName(probe.item) \notin probe.before
                   /\ mp4Disk = probe.before \cup {MediaName(probe.item)}

\* C21 witness: the tools have failed in one call, left no .mp4 in another
\* and several in the last one, whose target file is installed
C21_Witness ==
    /\ probe.op = "extract_rar"
    /\ {"failed", "nomedia", "several"} \subseteq probe.seen
    /\ probe.tool = "several"
    /\ probe.ret = "first"
    /\ MediaName(probe.item) \in mp4Disk

\* C22: a run that starts on a ledger file that is not well-formed stops at
\* the load: no task is scheduled, and the file is left as it is for the
\* rest of the run; a run that starts without a ledger file starts with
\* the empty ledger.
C22_CorruptLedgerStopsRun ==
    /\ [](/\ (mainPc = "corrupt")
               => (LoadFails(file) /\ (\A i \in Items : task[i].pc = "idle"))
          /\ (mainPc = "init" /\ file = NoFile)
               => (downloaded = EmptyLedger))
    /\ [][/\ (run' # run /\ LoadFails(file))
               => (mainPc' = "corrupt" /\ file' = file)
          /\ (mainPc = "corrupt")
               => (file' = file /\ mainPc' = "corrupt")]_vars

\* C22 witness: the second run has stopped at the load of a file that the
\* first run left truncated
C22_Witness ==
    /\ run = 2
    /\ mainPc = "corrupt"
    /\ file.state = "torn"

\* C23: the popup of the alternate offline link is entered only in an
\* attempt whose trigger search found no download trigger on the page, not
\* in one whose trigger was clicked and whose transfer failed.
C23_FallbackOnlyAfterFailedSearch ==
    \A i \in Items :
        task[i].pc = "fallbackPopup" => task[i].trig = "none"


\* A task that waits at an await whose outcome is available: its next
\* step is one of the steps below.
Steppable(j) ==
    task[j].pc \in {"clicked", "popupOpen", "page", "fallbackPopup", "closing"}

TaskStep(j) ==
    \/ PopupObserved(j)
    \/ PopupDownload(j)
    \/ DirectAttempt(j)
    \/ DirectPopup(j)
    \/ DirectClose(j)

\* C24: while one task is inside the extraction, the other tasks can
\* still take their steps: a task that waits at an await can take its
\* next step in every state where another task is extracting.
C24_OthersStepDuringExtraction ==
    \A i, j \in Items :
        (i # j /\ task[i].pc = "extracting" /\ Steppable(j))
            => ENABLED TaskStep(j)

\* C29: the hour field of the archive name that parse_li gives is the
\* two-digit form of (hour mod 12) plus the offset of the period, 0 for the
\* morning token and 12 for the noon, afternoon and night tokens, and its
\* value lies in 0..23.
C29_HourField ==
    (probe.op = "parse_li" /\ probe.called /\ probe.out.ok)
        => LET hour == ValueOf(probe.li.hour.digits)
               field == probe.out.filename.hour
           IN  /\ Len(field.digits) = 2
               /\ ValueOf(field.digits) \in 0..23
               /\ probe.li.period = "sobh"
                    => ValueOf(field.digits) = hour % 12
               /\ probe.li.period \in {"zohr", "asr", "shab"}
                    => ValueOf(field.digits) = (hour % 12) + 12

\* C29 witness: 12 o'clock with the noon token has given the hour field 12
C29_Witness ==
    /\ probe.op = "parse_li" /\ probe.called /\ probe.out.ok
    /\ probe.li.hour.digits = <<1, 2>>
    /\ probe.li.period = "zohr"
    /\ probe.out.filename.hour = Ascii(<<1, 2>>)

\* C26: every mutation of the in-memory ledger (the entry of the
\* collection, an archive name, a media name) is written before another
\* task can run: in every state of a batch whose last write succeeded the
\* file holds the in-memory ledger, and every step of the batch that changes
\* the in-memory ledger writes the file in the same step.
C26_MutationsPersisted ==
    /\ []((mainPc \in {"running", "extracting", "done"} /\ file.state # "torn")
            => (file.state = "ok" /\ file.data = downloaded))
    /\ [][(run' = run /\ mainPc' # "crashed" /\ downloaded' # downloaded)
            => \/ file'.state = "torn"
               \/ (file'.state = "ok" /\ file'.data = downloaded')]_vars

\* C26 witness: one task has marked its archive and its media, every write
\* succeeded, and another task waits with its download page open
C26_Witness ==
    /\ mainPc = "running"
    /\ file.state = "ok"
    /\ \E i, j \in Items :
         /\ task[i].marked = {"rar", "mp4"}
         /\ {ArchiveName(i)} \subseteq Rars(file.data)
         /\ {MediaName(i)} \subseteq Mp4s(file.data)
         /\ task[j].pc = "page"

\* The course pages open for the resolution of the module ids
OpenCoursePages == {c \in Courses : probe.course[c].page2}

\* C25: at most max_workers course pages are open at a time, a coroutine
\* whose resolution has ended (found, not found or error) has no page open,
\* and the permits are those of a semaphore of get_course_ids alone: the
\* download permits and the click lock are not taken, and no download task
\* exists, while the courses are resolved.
C25_CoursePagesBounded ==
    probe.op = "get_course_ids"
        => /\ Cardinality(OpenCoursePages) <= probe.max_workers
           /\ \A c \in Courses :
                /\ probe.course[c].pc = "done" => ~probe.course[c].page2
                /\ probe.course[c].page2
                     => probe.course[c].pc \in {"open", "closing"}
           /\ probe.sem >= 0
           /\ probe.sem + Cardinality({c \in Courses :
                   probe.course[c].pc \in {"acquired", "open", "closing"}})
                 = probe.max_workers
           /\ sem = max_downloads
           /\ lock = 0
           /\ \A i \in Items : task[i].pc = "idle"

\* C25 witness: max_workers = 2 pages are open, a third course waits for a
\* permit, and a resolution that ended with an error has closed its page
C25_Witness ==
    /\ probe.op = "get_course_ids"
    /\ probe.max_workers = 2
    /\ Cardinality(OpenCoursePages) = 2
    /\ \E c, d \in Courses :
         /\ probe.course[c].pc = "waiting"
         /\ probe.course[d].pc = "done"
         /\ probe.course[d].out = "error"
         /\ ~probe.course[d].page2

\* A step in which the task of item i makes the mark m
NewlyMarked(i, m) == m \in task'[i].marked /\ m \notin task[i].marked

\* C27: the milestones of an item come in the order transfer completed,
\* archive marked, extraction, media marked: a task marks its archive only
\* when the transfer of its current attempt was saved, it enters the
\* extraction only with its archive saved (and, in download_and_extract,
\* marked), and it marks its media only in the step in which extract_rar
\* returns, with the media file in the extract directory; a running process
\* adds no other name to the ledger.
C27_MilestoneOrder ==
    [][/\ \A i \in Items :
            /\ NewlyMarked(i, "rar")
                 => /\ task[i].pc = "closing"
                    /\ task[i].saved
                    /\ ArchiveName(i) \in rarDisk
            /\ (task'[i].pc = "extracting" /\ task[i].pc # "extracting")
                 => IF IsPopup(i)
                    THEN /\ task[i].pc = "popupOpen"
                         /\ PopupArchive(i) \in rarDisk'
                    ELSE /\ task[i].pc = "closing"
                         /\ task[i].saved
                         /\ ArchiveName(i) \in rarDisk
                         /\ ArchiveName(i) \in Rars(downloaded')
            /\ NewlyMarked(i, "mp4")
                 => /\ task[i].pc = "extracting"
                    /\ MediaName(i) \in mp4Disk'
       /\ (run' = run /\ mainPc' # "crashed")
            => /\ Rars(downloaded') \ Rars(downloaded)
                    \subseteq {ArchiveName(i) : i \in {j \in Items : NewlyMarked(j, "rar")}}
               /\ Mp4s(downloaded') \ Mp4s(downloaded)
                    \subseteq {MediaName(i) : i \in {j \in Items : NewlyMarked(j, "mp4")}}
      ]_vars

\* C27 witness: download_and_extract has saved and marked the archive of
\* one item and is extracting it, its media not marked yet, after a popup
\* task has downloaded, extracted and marked another item
C27_Witness ==
    \E i, j \in Items :
        /\ ~IsPopup(i)
        /\ task[i].pc = "extracting"
        /\ task[i].marked = {"rar"}
        /\ ArchiveName(i) \in rarDisk
        /\ MediaName(i) \notin Mp4s(downloaded)
        /\ IsPopup(j)
        /\ task[j].status = "Done"
        /\ task[j].marked = {"mp4"}
        /\ MediaName(j) \in mp4Disk

\* C28: when every call returns or times out, every task of a batch
\* ends and the batch completes (unless the process is killed), whatever
\* the outcomes of the calls; a batch that has completed holds no permit
\* and not the lock.
C28_BatchCompletes ==
    /\ (mainPc = "running") ~> (mainPc \in {"done", "crashed"})
    /\ \A i \in Items :
         (task[i].pc \notin {"idle", "term"})
             ~> (Terminal(i) \/ mainPc = "crashed")
    /\ [](mainPc = "done"
            => /\ \A i \in Items : Terminal(i)
               /\ sem = max_downloads
               /\ lock = 0)

\* C28 witness: a batch has completed, with every permit and the lock
\* free, in which a popup task ended on an exception (no popup, or no
\* download in it) and the task of another item, under the one permit,
\* ended on the last failed attempt of download_and_extract
C28_Witness ==
    /\ mainPc = "done"
    /\ sem = max_downloads
    /\ lock = 0
    /\ \E i, j \in Items :
         /\ IsPopup(i)
         /\ task[i].status = "FetchFailed"
         /\ ~IsPopup(j)
         /\ task[j].status = "FetchFailed"
         /\ task[j].attempts = max_retries

====
